---- MODULE Spec2Model ----
(***************************************************************************)
(* Acquisition pipeline of the Surface Concept TDC viewer plugin.          *)
(*                                                                         *)
(*   tdc_wrapper.py : BufDataCB (producer callbacks on_data and            *)
(*                    on_end_of_meas, the Queue), BdcTdcWrapper.get_data   *)
(*                    (the consumer)                                       *)
(*   scTDC.py       : buffered_data_callbacks_pipe.start_measurement       *)
(*                                                                         *)
(* Threads.  The vendor library calls on_end_of_meas and on_data from its  *)
(* pipe context, one callback at a time: on_end_of_meas returns True and   *)
(* the pipe then transfers the remaining buffered events (scTDC.py         *)
(* 786-798).  The consumer (get_data) runs in the application thread and   *)
(* interleaves with the callbacks at every queue operation.                *)
(*                                                                         *)
(* Variables marked "history" record what happened; no action of the       *)
(* program reads them.                                                     *)
(***************************************************************************)
EXTENDS Integers, Sequences, FiniteSets

VARIABLES
    queue,            \* BufDataCB.queue, head first
    end_of_meas,      \* BufDataCB.end_of_meas
    eom_meas,         \* history: measurement whose notification set the flag
    prod_pc,          \* position of the pipe context inside on_data
    prod_d,           \* the dict d handed to on_data: data_len, and as history
                      \* the delivery number seq and the measurement meas
    dev_state,        \* device: "idle", "exposing", "flushing"
    dev_meas,         \* history: number of exposures the device has started
    dev_buffered,     \* events buffered in the library, not yet delivered
    dev_events,       \* events of the current exposure so far
    dev_initialized,  \* device.initialize() done and not deinitialized
    pipe_open,        \* the BUFFERED_DATA_CALLBACKS pipe is open
    c_pc,             \* position of the consumer inside get_data
    calls,            \* number of get_data calls so far
    retcode,          \* get_data's local retcode
    ret,              \* value returned by the last get_data
    pops_in_call,     \* history: queue.get() calls completed in this get_data
    first_item,       \* history: first item dequeued in this get_data
    sm_pc,            \* position inside start_measurement
    sm_retries,       \* start_measurement's local `retries`
    sm_r0,            \* history: the `retries` argument of this call
    sm_requests,      \* history: sc_tdc_start_measure2 calls of this call
    sm_sleeps,        \* history: time.sleep(0.001) calls of this call
    sm_ret,           \* value returned by start_measurement
    sm_all_notrdy,    \* history: every answer of this call was -11
    seq,              \* history: number of on_data deliveries so far
    pushed,           \* history: every item put on the queue, in put order
    popped,           \* history: every item taken from the queue, in order
    delivered,        \* history: events handed to on_data, per measurement
    faulted,          \* history: a start request answered a fatal error and
                      \* no open_communication has succeeded since
    ns_time_window,   \* DAQ_1DViewer_TDC.ns_time_window
    ps_resolution,    \* DAQ_1DViewer_TDC.ps_resolution, the exact quotient
                      \* << numerator, denominator >>
    nbins,            \* DAQ_1DViewer_TDC.nbins
    b_op,             \* history: parameter of the last binning commit_settings
    b_arg,            \* history: its value
    b_raised,         \* history: it raised ZeroDivisionError
    b_prev,           \* history: the binning attributes before it
    h_pc,             \* extract_histogram: "none", "ready" or "done"
    h_times,          \* its argument raw_ps_times
    h_Nbins,          \* its argument Nbins
    h_window,         \* its argument ps_time_window
    h_hist,           \* the array it returned
    h_raised,         \* it raised ValueError
    mode,             \* DAQ_1DViewer_TDC.mode
    g_done,           \* history: get_data calls whose result grab_data has
                      \* processed
    g_last,           \* history: mode, input and emission of the last of them
    o_pc,             \* organise_0D_data: "none", "ready" or "done"
    o_times,          \* its argument time_data
    o_length,         \* its argument data_length
    o_out,            \* the array it returned
    o_raised,         \* it raised ValueError
    lib_buf,          \* the chunk held by the library's buffer, which the
                      \* arrays given to on_data are views of
    notified,         \* history: number of on_end_of_meas calls
    i_pc,             \* ini_detector: "none", "ready" or "done"
    i_master,         \* history: self.is_master
    i_open,           \* history: "ok" or "failed" as open_communication
                      \* returned True or False, "none" if it was not called
    i_initialized,    \* the `initialized` that ini_detector returned
    controller,       \* self.controller: "none", the "class" BdcTdcWrapper or
                      \* an "instance" of it
    x_axis,           \* self.x_axis: number of points and spacing (ps)
    exposure_ms,      \* BdcTdcWrapper.exposure_ms of the controller instance
    self_data_length, \* DAQ_1DViewer_TDC.data_length
    pipes,            \* Device.pipes: pipe id -> number of the Pipe object
    handle,           \* Pipe.handle of every Pipe object created so far, in
                      \* the order of creation (the caller keeps the objects
                      \* that add_*_pipe returned)
    eomcb,            \* Device.eomcb: callback id -> callback
    d_op,             \* history: the last call made on the Device object or
                      \* the plugin's stop(), "none" before the first
    d_arg,            \* history: its argument (0 if it takes none)
    d_ret,            \* history: the int it returned (the error code of a
                      \* tuple)
    d_raised,         \* history: it raised instead of returning
    d_libcall,        \* history: it called into the vendor library
    d_prev            \* history: the Device object before the call

vars == << queue, end_of_meas, eom_meas, prod_pc, prod_d, dev_state, dev_meas,
           dev_buffered, dev_events, dev_initialized, pipe_open, c_pc, calls,
           retcode, ret, pops_in_call, first_item, sm_pc, sm_retries, sm_r0,
           sm_requests, sm_sleeps, sm_ret, sm_all_notrdy, seq, pushed,
           popped, delivered, faulted, ns_time_window, ps_resolution, nbins,
           b_op, b_arg, b_raised, b_prev, h_pc, h_times, h_Nbins, h_window,
           h_hist, h_raised, mode, g_done, g_last, o_pc, o_times, o_length,
           o_out, o_raised, lib_buf, notified, i_pc, i_master, i_open,
           i_initialized, controller, x_axis, exposure_ms,
           self_data_length, pipes, handle, eomcb, d_op, d_arg, d_ret,
           d_raised, d_libcall, d_prev >>

\* attributes of the viewer plugin DAQ_1DViewer_TDC
binningVars == << ns_time_window, ps_resolution, nbins, b_op, b_arg, b_raised,
                  b_prev >>
\* one call of the static method extract_histogram
histVars == << h_pc, h_times, h_Nbins, h_window, h_hist, h_raised >>
\* the acquisition type and the progress of grab_data
grabVars == << mode, g_done, g_last >>
\* one call of the static method organise_0D_data
orgVars == << o_pc, o_times, o_length, o_out, o_raised >>
\* one call of ini_detector
iniVars == << i_pc, i_master, i_open, i_initialized, controller, x_axis >>
\* the settings other than the mode and the binning
settingsVars == << exposure_ms, self_data_length >>
pluginVars == << binningVars, histVars, grabVars, orgVars, iniVars,
                 settingsVars >>

\* the registries of the module-level scTDC.Device object
registryVars == << pipes, handle, eomcb >>
\* record of the last call on it
apiVars == << d_op, d_arg, d_ret, d_raised, d_libcall, d_prev >>
objVars == << registryVars, apiVars >>

\* state of the application thread outside get_data
appVars == << faulted, pluginVars, objVars >>

producerVars == << queue, end_of_meas, eom_meas, prod_pc, prod_d, seq, pushed,
                   delivered, lib_buf,
                   notified >>
deviceVars == << dev_state, dev_meas, dev_buffered, dev_events,
                 dev_initialized, pipe_open >>
consumerVars == << c_pc, calls, retcode, ret, pops_in_call, first_item,
                   popped, appVars >>
smVars == << sm_pc, sm_retries, sm_r0, sm_requests, sm_sleeps, sm_ret,
             sm_all_notrdy >>

----------------------------------------------------------------------------
(* Bounds of the model *)

\* get_data calls explored
MaxCalls == 3
\* events the device records during one exposure
MaxEvents == 3
\* max_buffered_data_len, scaled down from the 500000 of BufDataCB.__init__
MaxBufferedDataLen == 2
\* largest `retries` argument tried on start_measurement
MaxRetriesArg == 4

\* Pipe objects created and end-of-measurement callbacks registered on the
\* Device object
MaxPipeObjects == 2
MaxCallbacks == 2

----------------------------------------------------------------------------
(* Program constants *)

QUEUE_DATA == 0
QUEUE_ENDOFMEAS == 1
\* default of start_measurement's `retries` parameter
DefaultRetries == 3
\* the library's "not ready" code and one other negative code
NOT_READY == 0 - 11
OTHER_ERROR == 0 - 1

\* Python's None as the payload of an end-of-measurement item
None == [data_len |-> 0 - 1, seq |-> 0, meas |-> 0]

Measurements == 1..MaxCalls

\* Pipe.handle = None, written as a number no library handle equals
\* (sc_pipe_open2 answers a handle >= 0 or a negative error code)
NoHandle == 0 - 1
\* a Device without pipes or callbacks: self.pipes = {}, self.eomcb = {}
EmptyDict == << >>
\* pipe ids and callback ids tried as arguments, one more than can be
\* registered
PipeIds == 0..MaxPipeObjects
CallbackIds == 0..MaxCallbacks
\* callables given to add_end_of_measurement_callback
Callbacks == {"cb1", "cb2"}

\* DAQ_1DViewer_TDC.__init__: ns_time_window and ps_resolution
InitWindowNs == 1000
InitResolutionPs == 1000
\* DAQ_1DViewer_TDC.__init__: data_length
InitDataLength == 100
\* BdcTdcWrapper.__init__: exposure_ms
InitExposureMs == 10

\* values tried for the 'exposure' (ms) and 'data_length' int parameters,
\* both declared with min 1
ExposureValues == {1, 10, 50}
DataLengthValues == {1, 100, 200}

\* limits of the 'nbins' list parameter: 1024 * 2 ** lencode, lencode < 6
NbinsLimits == {1024 * (2 ^ lencode) : lencode \in 0..5}

\* values tried for the 'resolution' (ps) and 'window' (ns) float
\* parameters, both declared with min 0.  For these values the float
\* quotient of commit_settings equals the exact one.
ResolutionValues == {0, 125, 500, 1000, 3000, 2000000}
WindowValues == {0, 1, 1000}

\* arguments tried for extract_histogram: at most MaxTimes arrival times
\* (ps) from below 0 to above the largest window, a few bin counts and
\* windows.  Every quotient Nbins / (window - 1) is 0 or a power of two,
\* so the float arithmetic of histogram1d is exact on them.
MaxTimes == 2
HistTimes == (0 - 1)..10
HistNbins == {1, 2, 4}
HistWindows == {1, 5, 9}

\* arguments tried for organise_0D_data: at most MaxOrgTimes non-zero
\* arrival times, and array sizes from the minimum of the 'data_length'
\* parameter (1) upwards
MaxOrgTimes == 7
OrgTimes == {1, 2}
OrgLengths == {1, 2, 5}

----------------------------------------------------------------------------
(* The device and the vendor library (external; scTDC.py docstrings) *)

\* sc_tdc_start_measure2: answers the library can give to a start request.
\* A new exposure is accepted only by an initialized, idle device.
StartAnswers ==
    IF dev_initialized /\ dev_state = "idle"
    THEN {0, NOT_READY, OTHER_ERROR}
    ELSE {NOT_READY, OTHER_ERROR}

\* effect of an accepted start request on the device
DeviceStarts ==
    /\ dev_state' = "exposing"
    /\ dev_meas' = dev_meas + 1
    /\ dev_buffered' = 0
    /\ dev_events' = 0
    /\ UNCHANGED << dev_initialized, pipe_open >>

\* one event is recorded during the exposure and buffered by the library
DevEvent ==
    /\ dev_state = "exposing"
    /\ dev_events < MaxEvents
    /\ dev_buffered < MaxBufferedDataLen
    /\ dev_events' = dev_events + 1
    /\ dev_buffered' = dev_buffered + 1
    /\ UNCHANGED << dev_state, dev_meas, dev_initialized, pipe_open >>
    /\ UNCHANGED << producerVars, consumerVars, smVars >>

\* _data_cb: the pipe hands the buffered events to on_data
CallOnData(n) ==
    /\ prod_pc = "idle"
    /\ prod_pc' = "put_data"
    /\ prod_d' = [data_len |-> n, seq |-> seq + 1, meas |-> dev_meas]
    /\ lib_buf' = [seq |-> seq + 1, meas |-> dev_meas]
    /\ UNCHANGED notified
    /\ seq' = seq + 1
    /\ delivered' = [delivered EXCEPT ![dev_meas] = @ + n]
    /\ UNCHANGED << queue, end_of_meas, eom_meas, pushed >>

\* the buffer reached max_buffered_data_len during the exposure
DevDeliver ==
    /\ dev_state = "exposing"
    /\ pipe_open
    /\ dev_buffered = MaxBufferedDataLen
    /\ CallOnData(dev_buffered)
    /\ dev_buffered' = 0
    /\ UNCHANGED << dev_state, dev_meas, dev_events, dev_initialized,
                    pipe_open >>
    /\ UNCHANGED << consumerVars, smVars >>

----------------------------------------------------------------------------
(* BufDataCB.on_end_of_meas, in the pipe context *)

\* variant: the notification itself enqueues the marker
on_end_of_meas_enqueues ==
    /\ end_of_meas' = FALSE
    /\ eom_meas' = dev_meas
    /\ queue' = Append(queue, [type |-> QUEUE_ENDOFMEAS, data |-> None,
                                meas |-> dev_meas])
    /\ pushed' = Append(pushed, [type |-> QUEUE_ENDOFMEAS, data |-> None,
                                  meas |-> dev_meas])
    /\ notified' = notified + 1
    /\ UNCHANGED << prod_pc, prod_d, seq, delivered, lib_buf >>

\* self.end_of_meas = True; return True
on_end_of_meas ==
    /\ end_of_meas' = TRUE
    /\ eom_meas' = IF end_of_meas THEN eom_meas ELSE dev_meas
    /\ notified' = notified + 1
    /\ UNCHANGED << queue, prod_pc, prod_d, seq, pushed, delivered, lib_buf >>

\* the exposure time has elapsed (or the exposure was aborted): the pipe
\* notifies on_end_of_meas, which returns True, so a flush follows
DevEndOfMeas ==
    /\ dev_state = "exposing"
    /\ pipe_open
    /\ prod_pc = "idle"
    /\ on_end_of_meas
    /\ dev_state' = "flushing"
    /\ UNCHANGED << dev_meas, dev_buffered, dev_events, dev_initialized,
                    pipe_open >>
    /\ UNCHANGED << consumerVars, smVars >>

\* the exposure ends while the callbacks pipe is closed: nobody is notified
DevEndClosed ==
    /\ dev_state \in {"exposing", "flushing"}
    /\ ~pipe_open
    /\ dev_state' = "idle"
    /\ dev_buffered' = 0
    /\ UNCHANGED << dev_meas, dev_events, dev_initialized, pipe_open >>
    /\ UNCHANGED << producerVars, consumerVars, smVars >>

\* the flush requested by on_end_of_meas: the remaining buffered events are
\* handed to on_data
DevFlushData ==
    /\ dev_state = "flushing"
    /\ pipe_open
    /\ dev_buffered > 0
    /\ CallOnData(dev_buffered)
    /\ dev_state' = "idle"
    /\ dev_buffered' = 0
    /\ UNCHANGED << dev_meas, dev_events, dev_initialized, pipe_open >>
    /\ UNCHANGED << consumerVars, smVars >>

\* the flush finds no buffered event and the library calls on_data with an
\* empty chunk
DevFlushEmptyChunk ==
    /\ dev_state = "flushing"
    /\ pipe_open
    /\ dev_buffered = 0
    /\ CallOnData(0)
    /\ dev_state' = "idle"
    /\ UNCHANGED << dev_meas, dev_buffered, dev_events, dev_initialized,
                    pipe_open >>
    /\ UNCHANGED << consumerVars, smVars >>

\* the flush finds no buffered event and the library makes no call
DevFlushNothing ==
    /\ dev_state = "flushing"
    /\ pipe_open
    /\ dev_buffered = 0
    /\ prod_pc = "idle"
    /\ dev_state' = "idle"
    /\ UNCHANGED << dev_meas, dev_buffered, dev_events, dev_initialized,
                    pipe_open >>
    /\ UNCHANGED << producerVars, consumerVars, smVars >>

----------------------------------------------------------------------------
(* BufDataCB.on_data, in the pipe context *)

\* variant: the arrays are enqueued as they are, views of the library's
\* buffer
DataItem_view(d) ==
    [type |-> QUEUE_DATA, data |-> d, meas |-> d.meas, view |-> TRUE]

\* (QUEUE_DATA, dcopy): data_len is copied by assignment, every array by
\* its copy method, which reads the library's buffer as it is now
DataItem(d) ==
    [type |-> QUEUE_DATA,
     data |-> [d EXCEPT !.seq = lib_buf.seq, !.meas = lib_buf.meas],
     meas |-> lib_buf.meas,
     view |-> FALSE]

\* what a reader of an enqueued item finds in it
Contents(item) ==
    IF item.type = QUEUE_DATA /\ item.view
    THEN [item.data EXCEPT !.seq = lib_buf.seq, !.meas = lib_buf.meas]
    ELSE item.data

EndOfMeasItem == [type |-> QUEUE_ENDOFMEAS, data |-> None, meas |-> eom_meas]

\* self.queue = Queue(): maxsize 0, a queue without a capacity
QueueMaxSize == 0

\* variant: a queue that holds one item
HasRoom_one(q) ==
    Len(q) < 1

\* Queue.put blocks only while a queue with maxsize > 0 is full
HasRoom(q) ==
    QueueMaxSize <= 0 \/ Len(q) < QueueMaxSize

\* variant: a stack instead of a FIFO queue
put_lifo(q, item) == << item >> \o q

\* Queue.put
put(q, item) == Append(q, item)

\* dcopy = copy of d; self.queue.put((QUEUE_DATA, dcopy))
on_data_put ==
    /\ prod_pc = "put_data"
    /\ HasRoom(queue)
    /\ queue' = put(queue, DataItem(prod_d))
    /\ pushed' = Append(pushed, DataItem(prod_d))
    /\ prod_pc' = "check_flag"
    /\ UNCHANGED << end_of_meas, eom_meas, prod_d, seq, delivered, lib_buf,
                    notified >>
    /\ UNCHANGED << deviceVars, consumerVars, smVars >>

\* variant: on_data closes the pipe once the marker is enqueued
on_data_check_closes ==
    /\ prod_pc = "check_flag"
    /\ IF end_of_meas
       THEN /\ end_of_meas' = FALSE
            /\ queue' = put(queue, EndOfMeasItem)
            /\ pushed' = Append(pushed, EndOfMeasItem)
            /\ pipe_open' = FALSE
       ELSE UNCHANGED << end_of_meas, queue, pushed, pipe_open >>
    /\ prod_pc' = "idle"
    /\ UNCHANGED << eom_meas, prod_d, seq, delivered, lib_buf,
                    notified >>
    /\ UNCHANGED << dev_state, dev_meas, dev_buffered, dev_events,
                    dev_initialized >>
    /\ UNCHANGED << consumerVars, smVars >>

\* variant: the marker is enqueued and the flag left set
on_data_check_keeps_flag ==
    /\ prod_pc = "check_flag"
    /\ IF end_of_meas
       THEN /\ queue' = put(queue, EndOfMeasItem)
            /\ pushed' = Append(pushed, EndOfMeasItem)
       ELSE UNCHANGED << queue, pushed >>
    /\ prod_pc' = "idle"
    /\ UNCHANGED << end_of_meas, eom_meas, prod_d, seq, delivered, lib_buf,
                    notified >>
    /\ UNCHANGED << deviceVars, consumerVars, smVars >>

\* if self.end_of_meas: self.end_of_meas = False;
\*                      self.queue.put((QUEUE_ENDOFMEAS, None))
on_data_check ==
    /\ prod_pc = "check_flag"
    /\ end_of_meas => HasRoom(queue)
    /\ IF end_of_meas
       THEN /\ end_of_meas' = FALSE
            /\ queue' = put(queue, EndOfMeasItem)
            /\ pushed' = Append(pushed, EndOfMeasItem)
       ELSE UNCHANGED << end_of_meas, queue, pushed >>
    /\ prod_pc' = "idle"
    /\ UNCHANGED << eom_meas, prod_d, seq, delivered, lib_buf,
                    notified >>
    /\ UNCHANGED << deviceVars, consumerVars, smVars >>

----------------------------------------------------------------------------
(* buffered_data_callbacks_pipe.start_measurement (scTDC.py 821-845) *)

\* variant: the loop gives up only when `retries` is exactly 0
start_measurement_step_eq0(a) ==
    IF a # NOT_READY
    THEN /\ sm_ret' = a
         /\ sm_pc' = "returned"
         /\ UNCHANGED sm_retries
    ELSE /\ sm_retries' = sm_retries - 1
         /\ IF sm_retries - 1 = 0
            THEN /\ sm_ret' = NOT_READY
                 /\ sm_pc' = "returned"
            ELSE /\ sm_pc' = "sleep"
                 /\ UNCHANGED sm_ret

\* variant: every negative answer is retried like -11
start_measurement_step_retries_errors(a) ==
    IF a >= 0
    THEN /\ sm_ret' = a
         /\ sm_pc' = "returned"
         /\ UNCHANGED sm_retries
    ELSE /\ sm_retries' = sm_retries - 1
         /\ IF sm_retries - 1 <= 0
            THEN /\ sm_ret' = a
                 /\ sm_pc' = "returned"
            ELSE /\ sm_pc' = "sleep"
                 /\ UNCHANGED sm_ret

\* the body of the `while True` loop after the library answered `a`
start_measurement_step(a) ==
    IF a # NOT_READY
    THEN /\ sm_ret' = a
         /\ sm_pc' = "returned"
         /\ UNCHANGED sm_retries
    ELSE /\ sm_retries' = sm_retries - 1
         /\ IF sm_retries - 1 <= 0
            THEN /\ sm_ret' = NOT_READY
                 /\ sm_pc' = "returned"
            ELSE /\ sm_pc' = "sleep"
                 /\ UNCHANGED sm_ret

\* retcode = self.lib.sc_tdc_start_measure2(self.dev_desc, time_ms)
SMRequest ==
    /\ sm_pc = "request"
    /\ \E a \in StartAnswers :
          /\ IF a = 0 THEN DeviceStarts ELSE UNCHANGED deviceVars
          /\ sm_requests' = sm_requests + 1
          /\ sm_all_notrdy' = (sm_all_notrdy /\ a = NOT_READY)
          /\ start_measurement_step(a)
    /\ UNCHANGED << sm_r0, sm_sleeps >>
    /\ UNCHANGED << producerVars, consumerVars >>

\* time.sleep(0.001)
SMSleep ==
    /\ sm_pc = "sleep"
    /\ sm_sleeps' = sm_sleeps + 1
    /\ sm_pc' = "request"
    /\ UNCHANGED << sm_retries, sm_r0, sm_requests, sm_ret, sm_all_notrdy >>
    /\ UNCHANGED << producerVars, deviceVars, consumerVars >>

\* entry of start_measurement(time_ms, retries = r)
SMEnter(r) ==
    /\ sm_pc' = "request"
    /\ sm_retries' = r
    /\ sm_r0' = r
    /\ sm_requests' = 0
    /\ sm_sleeps' = 0
    /\ sm_all_notrdy' = TRUE
    /\ UNCHANGED sm_ret

----------------------------------------------------------------------------
(* BdcTdcWrapper.get_data (tdc_wrapper.py 105-114), the consumer *)

NoItem == [type |-> 0 - 1, data |-> None, meas |-> 0]

\* BdcTdcWrapper.errorcheck
errorcheck(rc) == rc < 0

\* a device-reported error other than the transient "not ready"
IsFatal(rc) == rc < 0 /\ rc # NOT_READY

\* buffered_data_callbacks_pipe.close
close == pipe_open' = FALSE

\* Device.deinitialize, `rc` being the answer of sc_tdc_deinit2
\* variant: the pipe references are dropped whatever the device answers
deinitialize_always_clears(rc) ==
    /\ pipes' = EmptyDict
    /\ IF dev_initialized /\ rc >= 0
       THEN /\ dev_initialized' = FALSE
            /\ dev_state' = "idle"
            /\ dev_buffered' = 0
       ELSE UNCHANGED << dev_initialized, dev_state, dev_buffered >>

\* Device.deinitialize, `rc` being the answer of sc_tdc_deinit2: nothing
\* to do on a device without descriptor; an error is handed back; else the
\* references in self.pipes are deleted (no Pipe.close, the Pipe objects
\* keep their handle) and dev_desc becomes None
deinitialize(rc) ==
    IF dev_initialized /\ rc >= 0
    THEN /\ dev_initialized' = FALSE
         /\ dev_state' = "idle"
         /\ dev_buffered' = 0
         /\ pipes' = EmptyDict
    ELSE UNCHANGED << dev_initialized, dev_state, dev_buffered, pipes >>

\* retcode = self.bufdatacb.start_measurement(self.exposure_ms)
GetDataCall ==
    /\ c_pc \in {"idle", "returned"}
    /\ calls < MaxCalls
    /\ calls' = calls + 1
    /\ c_pc' = "start_measurement"
    /\ SMEnter(DefaultRetries)
    /\ pops_in_call' = 0
    /\ first_item' = NoItem
    /\ UNCHANGED << retcode, ret, popped, appVars >>
    /\ UNCHANGED << producerVars, deviceVars >>

\* if self.errorcheck(retcode): self.bufdatacb.close(); device.deinitialize()
GetDataErrorcheck ==
    /\ c_pc = "start_measurement"
    /\ sm_pc = "returned"
    /\ retcode' = sm_ret
    /\ sm_pc' = "none"
    /\ IF errorcheck(sm_ret)
       THEN /\ close
            /\ \E rc \in {0, OTHER_ERROR} : deinitialize(rc)
            /\ UNCHANGED << dev_meas, dev_events >>
       ELSE UNCHANGED << deviceVars, pipes >>
    /\ c_pc' = "queue_get"
    /\ faulted' = (faulted \/ IsFatal(sm_ret))
    /\ UNCHANGED << pluginVars, handle, eomcb, apiVars >>
    /\ UNCHANGED << calls, ret, pops_in_call, first_item, popped >>
    /\ UNCHANGED << sm_retries, sm_r0, sm_requests, sm_sleeps, sm_ret,
                    sm_all_notrdy >>
    /\ UNCHANGED producerVars

\* variant: keep popping until the end-of-measurement item
GetDataPop_drains ==
    /\ c_pc = "queue_get"
    /\ queue # << >>
    /\ queue' = Tail(queue)
    /\ popped' = Append(popped, Head(queue))
    /\ pops_in_call' = pops_in_call + 1
    /\ first_item' = IF pops_in_call = 0 THEN Head(queue) ELSE first_item
    /\ ret' = Head(queue).data
    /\ c_pc' = IF Head(queue).type = QUEUE_ENDOFMEAS
               THEN "returned" ELSE "queue_get"
    /\ UNCHANGED << calls, retcode, appVars >>
    /\ UNCHANGED << end_of_meas, eom_meas, prod_pc, prod_d, seq, pushed,
                    delivered, lib_buf,
                    notified >>
    /\ UNCHANGED << deviceVars, smVars >>

\* eventtype, data = self.bufdatacb.queue.get(); return data
GetDataPop ==
    /\ c_pc = "queue_get"
    /\ queue # << >>
    /\ queue' = Tail(queue)
    /\ popped' = Append(popped, Head(queue))
    /\ pops_in_call' = pops_in_call + 1
    /\ first_item' = IF pops_in_call = 0 THEN Head(queue) ELSE first_item
    /\ ret' = Head(queue).data
    /\ c_pc' = "returned"
    /\ UNCHANGED << calls, retcode, appVars >>
    /\ UNCHANGED << end_of_meas, eom_meas, prod_pc, prod_d, seq, pushed,
                    delivered, lib_buf,
                    notified >>
    /\ UNCHANGED << deviceVars, smVars >>

----------------------------------------------------------------------------
(* DAQ_1DViewer_TDC.commit_settings: the binning parameters
   (daq_1Dviewer_TDC.py 89-105).  Python raises ZeroDivisionError on a
   division by zero, after the assignment that precedes it. *)

\* greatest common divisor of two naturals
RECURSIVE Gcd(_, _)
Gcd(a, b) == IF b = 0 THEN a ELSE Gcd(b, a % b)

\* exact quotient a / b of two naturals, b > 0, in lowest terms
Quot(a, b) == << a \div Gcd(a, b), b \div Gcd(a, b) >>
\* equality and sign of exact quotients with positive denominators
QuotEq(x, y) == x[1] * y[2] = y[1] * x[2]
QuotPositive(x) == x[1] > 0 /\ x[2] > 0

\* int(ns_time_window / (ps_resolution / 1000)) for a resolution r > 0
IntBins(w, r) == (1000 * w) \div r

BinningNow ==
    [window |-> ns_time_window, resolution |-> ps_resolution, nbins |-> nbins]

\* the rest of the state, which no binning commit touches
BinningFrame ==
    /\ UNCHANGED << c_pc, calls, retcode, ret, pops_in_call, first_item,
                    popped, faulted, histVars, grabVars, orgVars, iniVars,
                    settingsVars, objVars >>
    /\ UNCHANGED << producerVars, deviceVars, smVars >>

\* variant: the bin count is rounded to the nearest integer
CommitResolution_rounds(r) ==
    /\ b_op' = "resolution"
    /\ b_arg' = r
    /\ b_prev' = BinningNow
    /\ ps_resolution' = Quot(r, 1)
    /\ IF r = 0
       THEN /\ b_raised' = TRUE
            /\ UNCHANGED nbins
       ELSE /\ b_raised' = FALSE
            /\ nbins' = (2000 * ns_time_window + r) \div (2 * r)
    /\ UNCHANGED ns_time_window
    /\ BinningFrame

\* variant: the window is recomputed instead of the bin count
CommitResolution_moves_window(r) ==
    /\ b_op' = "resolution"
    /\ b_arg' = r
    /\ b_prev' = BinningNow
    /\ ps_resolution' = Quot(r, 1)
    /\ b_raised' = FALSE
    /\ ns_time_window' = (nbins * r) \div 1000
    /\ UNCHANGED nbins
    /\ BinningFrame

\* param 'resolution': self.ps_resolution = value;
\*   self.nbins = int(self.ns_time_window / (self.ps_resolution / 1000))
CommitResolution(r) ==
    /\ b_op' = "resolution"
    /\ b_arg' = r
    /\ b_prev' = BinningNow
    /\ ps_resolution' = Quot(r, 1)
    /\ IF r = 0
       THEN /\ b_raised' = TRUE
            /\ UNCHANGED nbins
       ELSE /\ b_raised' = FALSE
            /\ nbins' = IntBins(ns_time_window, r)
    /\ UNCHANGED ns_time_window
    /\ BinningFrame

\* variant: the resolution is not recomputed
CommitNbins_keeps_resolution(n) ==
    /\ b_op' = "nbins"
    /\ b_arg' = n
    /\ b_prev' = BinningNow
    /\ nbins' = n
    /\ b_raised' = FALSE
    /\ UNCHANGED << ps_resolution, ns_time_window >>
    /\ BinningFrame

\* param 'nbins': self.nbins = value;
\*   self.ps_resolution = 1000 * self.ns_time_window / self.nbins
CommitNbins(n) ==
    /\ b_op' = "nbins"
    /\ b_arg' = n
    /\ b_prev' = BinningNow
    /\ nbins' = n
    /\ IF n = 0
       THEN /\ b_raised' = TRUE
            /\ UNCHANGED ps_resolution
       ELSE /\ b_raised' = FALSE
            /\ ps_resolution' = Quot(1000 * ns_time_window, n)
    /\ UNCHANGED ns_time_window
    /\ BinningFrame

\* variant: the bin count is recomputed, the resolution held fixed
CommitWindow_moves_nbins(w) ==
    /\ b_op' = "window"
    /\ b_arg' = w
    /\ b_prev' = BinningNow
    /\ ns_time_window' = w
    /\ b_raised' = FALSE
    /\ nbins' = IF ps_resolution[1] = 0 THEN 0
                ELSE (1000 * w * ps_resolution[2]) \div ps_resolution[1]
    /\ UNCHANGED ps_resolution
    /\ BinningFrame

\* param 'window': self.ns_time_window = value;
\*   self.ps_resolution = 1000 * self.ns_time_window / self.nbins
CommitWindow(w) ==
    /\ b_op' = "window"
    /\ b_arg' = w
    /\ b_prev' = BinningNow
    /\ ns_time_window' = w
    /\ IF nbins = 0
       THEN /\ b_raised' = TRUE
            /\ UNCHANGED ps_resolution
       ELSE /\ b_raised' = FALSE
            /\ ps_resolution' = Quot(1000 * w, nbins)
    /\ UNCHANGED nbins
    /\ BinningFrame

\* the user changes the resolution, the bin count or the window
CommitSetResolution == \E r \in ResolutionValues : CommitResolution(r)
CommitSetNbins == \E n \in NbinsLimits : CommitNbins(n)
CommitSetWindow == \E w \in WindowValues : CommitWindow(w)

----------------------------------------------------------------------------
(* DAQ_1DViewer_TDC.extract_histogram (daq_1Dviewer_TDC.py 212-226) *)

\* fast_histogram.histogram1d(x, nx, (xmin, xmax)), xmin < xmax, nx > 0:
\* an element with xmin <= t < xmax is counted in bin
\* int((t - xmin) * nx / (xmax - xmin)), every other element in none
histogram1d(x, nx, xmin, xmax) ==
    [b \in 0..(nx - 1) |->
        Cardinality({i \in DOMAIN x :
                        /\ x[i] >= xmin
                        /\ x[i] < xmax
                        /\ ((x[i] - xmin) * nx) \div (xmax - xmin) = b})]

\* hist = histogram1d(raw_ps_times, Nbins, (0, int(ps_time_window) - 1))
extract_histogram(raw_ps_times, Nbins, ps_time_window) ==
    histogram1d(raw_ps_times, Nbins, 0, ps_time_window - 1)

\* no call of extract_histogram is under study
HistNotCalled ==
    /\ h_pc = "none"
    /\ h_times = << >>
    /\ h_Nbins = 0
    /\ h_window = 0
    /\ h_hist = << >>
    /\ h_raised = FALSE

\* one call; histogram1d raises ValueError unless xmin < xmax
ExtractHistogram ==
    /\ h_pc = "ready"
    /\ h_pc' = "done"
    /\ IF h_window - 1 <= 0
       THEN /\ h_raised' = TRUE
            /\ UNCHANGED h_hist
       ELSE /\ h_raised' = FALSE
            /\ h_hist' = extract_histogram(h_times, h_Nbins, h_window)
    /\ UNCHANGED << h_times, h_Nbins, h_window >>
    /\ UNCHANGED << binningVars, grabVars, orgVars, iniVars, settingsVars,
                    faulted, objVars >>
    /\ UNCHANGED << c_pc, calls, retcode, ret, pops_in_call, first_item,
                    popped >>
    /\ UNCHANGED << producerVars, deviceVars, smVars >>

----------------------------------------------------------------------------
(* DAQ_1DViewer_TDC.organise_0D_data (daq_1Dviewer_TDC.py 194-210) *)

\* variant: the times fill the end of the array
organise_0D_data_right(time_data, data_length) ==
    [i \in 1..data_length |->
        IF i > data_length - Len(time_data)
        THEN time_data[i - (data_length - Len(time_data))]
        ELSE 0]

\* data_0D = np.zeros((data_length,)); data_0D[:len(time_data)] = time_data
\* for len(time_data) <= data_length
organise_0D_data(time_data, data_length) ==
    [i \in 1..data_length |->
        IF i <= Len(time_data) THEN time_data[i] ELSE 0]

\* no call of organise_0D_data is under study
OrgNotCalled ==
    /\ o_pc = "none"
    /\ o_times = << >>
    /\ o_length = 0
    /\ o_out = << >>
    /\ o_raised = FALSE

\* one call.  With more times than slots the target data_0D[:n] has only
\* data_length elements and numpy refuses the assignment with ValueError
\* (n values cannot be broadcast into data_length < n slots, n >= 2).
OrganiseData ==
    /\ o_pc = "ready"
    /\ o_pc' = "done"
    /\ IF Len(o_times) > o_length
       THEN /\ o_raised' = TRUE
            /\ UNCHANGED o_out
       ELSE /\ o_raised' = FALSE
            /\ o_out' = organise_0D_data(o_times, o_length)
    /\ UNCHANGED << o_times, o_length >>
    /\ UNCHANGED << binningVars, histVars, grabVars, iniVars, settingsVars,
                    faulted, objVars >>
    /\ UNCHANGED << c_pc, calls, retcode, ret, pops_in_call, first_item,
                    popped >>
    /\ UNCHANGED << producerVars, deviceVars, smVars >>

----------------------------------------------------------------------------
(* DAQ_1DViewer_TDC.ini_detector (daq_1Dviewer_TDC.py 119-153) *)

\* the attribute x_axis does not exist yet
NoAxis == [points |-> 0 - 1, spacing |-> << 0, 1 >>]

\* get_xaxis: Axis(data=np.linspace(0, (Nbins - 1) * res, Nbins)), that is
\* Nbins points spaced by res, from the binning attributes as they are now
get_xaxis ==
    [points |-> nbins, spacing |-> ps_resolution]

\* ini_detector is not under study: the plugin holds a wrapper instance
\* and the axis ini_detector computed from the initial binning
IniNotCalled ==
    /\ i_pc = "none"
    /\ i_master = FALSE
    /\ i_open = "none"
    /\ i_initialized = FALSE
    /\ controller = "instance"
    /\ x_axis = get_xaxis

\* In the master case self.controller = BdcTdcWrapper (the class) and its
\* static method open_communication initializes the device; the value it
\* returns is dropped.  In the slave case the controller handed in is kept
\* and nothing is opened.  self.x_axis = self.get_xaxis() follows.
\* Either way: initialized = True; return info,
\* initialized.
IniDetector ==
    /\ i_pc = "ready"
    /\ i_pc' = "done"
    /\ \E master \in BOOLEAN :
          /\ i_master' = master
          /\ IF master
             THEN /\ controller' = "class"
                  /\ \E rc \in {0, OTHER_ERROR} :
                        /\ i_open' = IF rc < 0 THEN "failed" ELSE "ok"
                        /\ dev_initialized' = (dev_initialized \/ rc >= 0)
                        /\ faulted' = (faulted /\ rc < 0)
             ELSE /\ controller' = "instance"
                  /\ i_open' = "none"
                  /\ UNCHANGED << dev_initialized, faulted >>
    /\ x_axis' = get_xaxis
    /\ i_initialized' = TRUE
    /\ UNCHANGED << dev_state, dev_meas, dev_buffered, dev_events, pipe_open >>
    /\ UNCHANGED << binningVars, histVars, grabVars, orgVars, settingsVars,
                    objVars >>
    /\ UNCHANGED << c_pc, calls, retcode, ret, pops_in_call, first_item,
                    popped >>
    /\ UNCHANGED << producerVars, smVars >>

----------------------------------------------------------------------------
(* DAQ_1DViewer_TDC.grab_data (daq_1Dviewer_TDC.py 228-256) and the
   acq_type parameter.  grab_data and commit_settings run one at a time in
   the plugin's thread. *)

NoEmission == [dim |-> "none", len |-> 0]
NoGrab == [mode |-> "none", chunk |-> FALSE, out |-> NoEmission]

\* the plugin's thread is not inside grab_data
PluginIdle == c_pc \in {"idle", "returned"} /\ g_done = calls

\* raw_data = self.controller.get_data(), up to the return of get_data
GrabDataCall ==
    /\ PluginIdle
    /\ GetDataCall

\* the rest of grab_data.  process_data subscripts raw_data and raises
\* TypeError on None.  The Histo branch calls extract_histogram without
\* ps_time_window, whose default None makes int(ps_time_window) raise
\* TypeError before any histogram exists.  The Counting branch copies the
\* times into an array of data_length zeros (ValueError if they do not
\* fit) and emits it as Data0D.
GrabDataProcess ==
    /\ c_pc = "returned"
    /\ g_done < calls
    /\ g_done' = calls
    /\ g_last' =
          [mode |-> mode,
           chunk |-> (ret # None),
           out |-> IF ret = None THEN NoEmission
                   ELSE IF mode = "Histo" THEN NoEmission
                   ELSE IF ret.data_len > self_data_length THEN NoEmission
                   ELSE [dim |-> "Data0D", len |-> self_data_length]]
    /\ UNCHANGED << mode, binningVars, histVars, orgVars, iniVars,
                    settingsVars, faulted, objVars >>
    /\ UNCHANGED << c_pc, calls, retcode, ret, pops_in_call, first_item,
                    popped >>
    /\ UNCHANGED << producerVars, deviceVars, smVars >>

\* param 'acq_type': self.mode = param.value()
CommitAcqType ==
    /\ PluginIdle
    /\ \E v \in {"Counting", "Histo"} : mode' = v
    /\ UNCHANGED << g_done, g_last, binningVars, histVars, orgVars, iniVars,
                    settingsVars, faulted, objVars >>
    /\ UNCHANGED << c_pc, calls, retcode, ret, pops_in_call, first_item,
                    popped >>
    /\ UNCHANGED << producerVars, deviceVars, smVars >>

\* variant: the data length is also taken as the bin count
CommitDataLength_sets_nbins ==
    /\ PluginIdle
    /\ \E v \in DataLengthValues :
          /\ self_data_length' = v
          /\ nbins' = v
    /\ UNCHANGED << exposure_ms, grabVars, histVars, orgVars, iniVars,
                    faulted, objVars >>
    /\ UNCHANGED << ns_time_window, ps_resolution, b_op, b_arg, b_raised,
                    b_prev >>
    /\ UNCHANGED << c_pc, calls, retcode, ret, pops_in_call, first_item,
                    popped >>
    /\ UNCHANGED << producerVars, deviceVars, smVars >>

\* param 'data_length': self.data_length = param.value()
CommitDataLength ==
    /\ PluginIdle
    /\ \E v \in DataLengthValues : self_data_length' = v
    /\ UNCHANGED << exposure_ms, binningVars, grabVars, histVars, orgVars,
                    iniVars, faulted, objVars >>
    /\ UNCHANGED << c_pc, calls, retcode, ret, pops_in_call, first_item,
                    popped >>
    /\ UNCHANGED << producerVars, deviceVars, smVars >>

\* param 'exposure': self.controller.set_exposure(param.value()).  On a
\* wrapper instance this assigns exposure_ms.  On the class BdcTdcWrapper
\* the value is bound to `self` and the call raises TypeError (ms_value
\* missing); on None it raises AttributeError.  Nothing is assigned then.
CommitExposure ==
    /\ PluginIdle
    /\ \E v \in ExposureValues :
          exposure_ms' = IF controller = "instance" THEN v ELSE exposure_ms
    /\ UNCHANGED << self_data_length, binningVars, grabVars, histVars,
                    orgVars, iniVars, faulted, objVars >>
    /\ UNCHANGED << c_pc, calls, retcode, ret, pops_in_call, first_item,
                    popped >>
    /\ UNCHANGED << producerVars, deviceVars, smVars >>

\* a binning parameter changed between two grabs
GrabCommitBinning ==
    /\ PluginIdle
    /\ \/ CommitResolution(500)
       \/ CommitNbins(1024)
       \/ CommitWindow(1000)

\* BdcTdcWrapper.open_communication (tdc_wrapper.py 78-87) on top of
\* Device.initialize (scTDC.py 963-986), `rc` being the answer of
\* sc_tdc_init_inifile; called by the application between two get_data
OpenCommunication ==
    /\ c_pc \in {"idle", "returned"}
    /\ \E rc \in {0, OTHER_ERROR} :
          IF rc < 0
          THEN UNCHANGED << dev_initialized, faulted >>
          ELSE /\ dev_initialized' = TRUE
               /\ faulted' = FALSE
    /\ UNCHANGED << dev_state, dev_meas, dev_buffered, dev_events, pipe_open >>
    /\ UNCHANGED << c_pc, calls, retcode, ret, pops_in_call, first_item,
                    popped, pluginVars, objVars >>
    /\ UNCHANGED << producerVars, smVars >>

----------------------------------------------------------------------------
(* The Device object: scTDC.Device, and the plugin's stop() *)

\* what a call on the Device object, or stop(), can change
DeviceNow ==
    [initialized |-> dev_initialized, pipes |-> pipes, handle |-> handle,
     eomcb |-> eomcb, pipe_open |-> pipe_open]

\* a dict with the entry k -> v added or replaced
DictSet(d, k, v) ==
    [i \in DOMAIN d \cup {k} |-> IF i = k THEN v ELSE d[i]]

\* a dict after `del d[k]`
DictDel(d, k) ==
    [i \in DOMAIN d \ {k} |-> d[i]]

\* the rest of the state, which no call on the Device object touches
DeviceFrame ==
    /\ UNCHANGED << c_pc, calls, retcode, ret, pops_in_call, first_item,
                    popped, pluginVars >>
    /\ UNCHANGED << dev_meas, dev_events, pipe_open >>
    /\ UNCHANGED << producerVars, smVars >>

\* the record of one call
Called(op, arg, r, raised, libcall) ==
    /\ d_op' = op
    /\ d_arg' = arg
    /\ d_ret' = r
    /\ d_raised' = raised
    /\ d_libcall' = libcall
    /\ d_prev' = DeviceNow

\* Device.initialize, `rc` being the answer of sc_tdc_init_inifile
DeviceInitialize ==
    /\ c_pc \in {"idle", "returned"}
    /\ \E rc \in {0, OTHER_ERROR} :
          /\ IF rc < 0
             THEN UNCHANGED << dev_initialized, faulted >>
             ELSE /\ dev_initialized' = TRUE
                  /\ faulted' = FALSE
          /\ Called("initialize", 0, IF rc < 0 THEN rc ELSE 0, FALSE, TRUE)
    /\ UNCHANGED << dev_state, dev_buffered, registryVars >>
    /\ DeviceFrame

\* Device.deinitialize, `rc` being the answer of sc_tdc_deinit2, which is
\* asked only when there is a device descriptor
DeviceDeinitialize ==
    /\ c_pc \in {"idle", "returned"}
    /\ \E rc \in {0, OTHER_ERROR} :
          /\ deinitialize(rc)
          /\ Called("deinitialize", 0,
                    IF dev_initialized /\ rc < 0 THEN rc ELSE 0,
                    FALSE, dev_initialized)
    /\ UNCHANGED << handle, eomcb, faulted >>
    /\ DeviceFrame

\* the key _make_new_pipe takes: the first i of range(1000) not in pipes
FreePipeId == CHOOSE i \in 0..Cardinality(DOMAIN pipes) :
                 /\ i \notin DOMAIN pipes
                 /\ \A j \in 0..(i - 1) : j \in DOMAIN pipes

\* Device.add_*_pipe on an initialized device: _make_new_pipe registers a
\* new Pipe object under the first free id; Pipe.__init__ calls reopen(),
\* which sets the handle if sc_pipe_open2 answers `rc` >= 0 and only prints
\* a message otherwise, so the pipe is registered either way
DeviceAddPipe ==
    /\ c_pc \in {"idle", "returned"}
    /\ dev_initialized
    /\ Len(handle) < MaxPipeObjects
    /\ \E rc \in {0, OTHER_ERROR} :
          handle' = Append(handle, IF rc < 0 THEN NoHandle ELSE Len(handle))
    /\ pipes' = DictSet(pipes, FreePipeId, Len(handle) + 1)
    /\ Called("add_pipe", 0, FreePipeId, FALSE, TRUE)
    /\ UNCHANGED << dev_initialized, dev_state, dev_buffered, eomcb, faulted >>
    /\ DeviceFrame

\* Device.remove_pipe(pipeid), `rc` being the answer of sc_pipe_close2.
\* An unknown id raises KeyError, answered with -1.  Pipe.close (1481-1498)
\* returns a tuple whose value remove_pipe drops: on rc < 0 the handle
\* stays; the reference is deleted and 0 returned in both cases.  For a
\* pipe whose handle is None (its open failed) the ctypes prototype of
\* sc_pipe_close2 (argtypes [i32, i32], scTDC.py 353) rejects the None and
\* the call raises an ArgumentError that remove_pipe does not catch.
DeviceRemovePipe ==
    /\ c_pc \in {"idle", "returned"}
    /\ \E pipeid \in PipeIds :
          IF pipeid \notin DOMAIN pipes
          THEN /\ Called("remove_pipe", pipeid, 0 - 1, FALSE, FALSE)
               /\ UNCHANGED << pipes, handle >>
          ELSE IF handle[pipes[pipeid]] = NoHandle
          THEN /\ Called("remove_pipe", pipeid, 0, TRUE, FALSE)
               /\ UNCHANGED << pipes, handle >>
          ELSE \E rc \in {0, OTHER_ERROR} :
                  /\ handle' = IF rc < 0 THEN handle
                               ELSE [handle EXCEPT ![pipes[pipeid]] = NoHandle]
                  /\ pipes' = DictDel(pipes, pipeid)
                  /\ Called("remove_pipe", pipeid, 0, FALSE, TRUE)
    /\ UNCHANGED << dev_initialized, dev_state, dev_buffered, eomcb, faulted >>
    /\ DeviceFrame

\* variant: the callback always takes the id len(self.eomcb)
add_end_of_measurement_callback_at_len(d) == Cardinality(DOMAIN d)

\* the id add_end_of_measurement_callback takes in the dict d: the first i
\* of range(len(d), -1, -1) that is not a key, -1 if there is none
add_end_of_measurement_callback(d) ==
    IF \E i \in 0..Cardinality(DOMAIN d) : i \notin DOMAIN d
    THEN CHOOSE i \in 0..Cardinality(DOMAIN d) :
            /\ i \notin DOMAIN d
            /\ \A j \in (i + 1)..Cardinality(DOMAIN d) : j \in DOMAIN d
    ELSE 0 - 1

\* Device.add_end_of_measurement_callback(cb)
DeviceAddCallback ==
    /\ c_pc \in {"idle", "returned"}
    /\ Cardinality(DOMAIN eomcb) < MaxCallbacks
    /\ \E cb \in Callbacks :
          /\ eomcb' = IF add_end_of_measurement_callback(eomcb) < 0
                      THEN eomcb
                      ELSE DictSet(eomcb,
                                   add_end_of_measurement_callback(eomcb), cb)
          /\ Called("add_callback", 0,
                    add_end_of_measurement_callback(eomcb), FALSE, FALSE)
    /\ UNCHANGED << dev_initialized, dev_state, dev_buffered, pipes, handle,
                    faulted >>
    /\ DeviceFrame

\* Device.remove_end_of_measurement_callback(id_of_cb)
DeviceRemoveCallback ==
    /\ c_pc \in {"idle", "returned"}
    /\ \E id_of_cb \in CallbackIds :
          IF id_of_cb \in DOMAIN eomcb
          THEN /\ eomcb' = DictDel(eomcb, id_of_cb)
               /\ Called("remove_callback", id_of_cb, 0, FALSE, FALSE)
          ELSE /\ UNCHANGED eomcb
               /\ Called("remove_callback", id_of_cb, 0 - 1, FALSE, FALSE)
    /\ UNCHANGED << dev_initialized, dev_state, dev_buffered, pipes, handle,
                    faulted >>
    /\ DeviceFrame

\* DAQ_1DViewer_TDC.stop between two grabs:
\* self.controller.close_communication(), which closes the callback pipe
\* and deinitializes the device (`rc` the answer of sc_tdc_deinit2).  With
\* the class BdcTdcWrapper as controller the call lacks `self` and raises
\* TypeError before anything is closed.
Stop ==
    /\ c_pc \in {"idle", "returned"}
    /\ IF controller = "instance"
       THEN /\ close
            /\ \E rc \in {0, OTHER_ERROR} : deinitialize(rc)
            /\ Called("stop", 0, 0, FALSE, TRUE)
       ELSE /\ UNCHANGED << pipe_open, dev_initialized, dev_state,
                            dev_buffered, pipes >>
            /\ Called("stop", 0, 0, TRUE, FALSE)
    /\ UNCHANGED << handle, eomcb, faulted >>
    /\ UNCHANGED << c_pc, calls, retcode, ret, pops_in_call, first_item,
                    popped, pluginVars >>
    /\ UNCHANGED << dev_meas, dev_events >>
    /\ UNCHANGED << producerVars, smVars >>

----------------------------------------------------------------------------
(* Specifications *)

\* the wrapper is constructed on an initialized device, nothing started
InitCommon ==
    /\ queue = << >>
    /\ end_of_meas = FALSE
    /\ eom_meas = 0
    /\ prod_pc = "idle"
    /\ prod_d = None
    /\ lib_buf = [seq |-> 0, meas |-> 0]
    /\ notified = 0
    /\ exposure_ms = InitExposureMs
    /\ self_data_length = InitDataLength
    /\ pipes = EmptyDict
    /\ handle = << >>
    /\ eomcb = EmptyDict
    /\ d_op = "none"
    /\ d_arg = 0
    /\ d_ret = 0
    /\ d_raised = FALSE
    /\ d_libcall = FALSE
    /\ d_prev = [initialized |-> FALSE, pipes |-> EmptyDict,
                 handle |-> << >>, eomcb |-> EmptyDict, pipe_open |-> TRUE]
    /\ dev_meas = 0
    /\ dev_buffered = 0
    /\ dev_events = 0
    /\ pipe_open = TRUE
    /\ calls = 0
    /\ retcode = 0
    /\ ret = None
    /\ pops_in_call = 0
    /\ first_item = NoItem
    /\ sm_requests = 0
    /\ sm_sleeps = 0
    /\ sm_ret = 0
    /\ sm_all_notrdy = TRUE
    /\ seq = 0
    /\ pushed = << >>
    /\ popped = << >>
    /\ delivered = [m \in Measurements |-> 0]
    /\ faulted = FALSE
    /\ ns_time_window = InitWindowNs
    /\ ps_resolution = Quot(InitResolutionPs, 1)
    /\ nbins = IntBins(InitWindowNs, InitResolutionPs)
    /\ b_op = "none"
    /\ b_arg = 0
    /\ b_raised = FALSE
    /\ b_prev = [window |-> InitWindowNs,
                 resolution |-> Quot(InitResolutionPs, 1),
                 nbins |-> IntBins(InitWindowNs, InitResolutionPs)]
    /\ mode = "Histo"
    /\ g_done = 0
    /\ g_last = NoGrab

Init ==
    /\ InitCommon
    /\ IniNotCalled
    /\ HistNotCalled
    /\ OrgNotCalled
    /\ dev_state = "idle"
    /\ dev_initialized = TRUE
    /\ c_pc = "idle"
    /\ sm_pc = "none"
    /\ sm_retries = 0
    /\ sm_r0 = 0

Next ==
    \/ DevEvent
    \/ DevDeliver
    \/ DevEndOfMeas
    \/ DevEndClosed
    \/ DevFlushData
    \/ DevFlushEmptyChunk
    \/ DevFlushNothing
    \/ on_data_put
    \/ on_data_check
    \/ GetDataCall
    \/ SMRequest
    \/ SMSleep
    \/ GetDataErrorcheck
    \/ GetDataPop
    \/ OpenCommunication

Spec == Init /\ [][Next]_vars

\* every thread that can take a step eventually takes one
FairSpec == Spec /\ WF_vars(Next)

\* start_measurement called on its own with any `retries` argument, on a
\* device in any condition
InitStart ==
    /\ InitCommon
    /\ IniNotCalled
    /\ HistNotCalled
    /\ OrgNotCalled
    /\ dev_initialized \in BOOLEAN
    /\ dev_state \in IF dev_initialized
                     THEN {"idle", "exposing", "flushing"}
                     ELSE {"idle"}
    /\ c_pc = "direct"
    /\ sm_pc = "request"
    /\ sm_r0 \in (0 - 1)..MaxRetriesArg
    /\ sm_retries = sm_r0

NextStart ==
    \/ SMRequest
    \/ SMSleep

SpecStart == InitStart /\ [][NextStart]_vars

\* the binning parameters changed in any order, no acquisition running
NextBin ==
    \/ CommitSetResolution
    \/ CommitSetNbins
    \/ CommitSetWindow

SpecBin == Init /\ [][NextBin]_vars

\* extract_histogram called once on any of the arguments tried
InitHist ==
    /\ InitCommon
    /\ IniNotCalled
    /\ OrgNotCalled
    /\ dev_state = "idle"
    /\ dev_initialized = TRUE
    /\ c_pc = "idle"
    /\ sm_pc = "none"
    /\ sm_retries = 0
    /\ sm_r0 = 0
    /\ h_pc = "ready"
    /\ h_times \in UNION {[1..n -> HistTimes] : n \in 0..MaxTimes}
    /\ h_Nbins \in HistNbins
    /\ h_window \in HistWindows
    /\ h_hist = << >>
    /\ h_raised = FALSE

NextHist == ExtractHistogram

\* the plugin grabbing repeatedly, the user changing the acquisition type
\* and the binning between grabs, the device and the callbacks running
NextGrab ==
    \/ DevEvent
    \/ DevDeliver
    \/ DevEndOfMeas
    \/ DevEndClosed
    \/ DevFlushData
    \/ DevFlushEmptyChunk
    \/ DevFlushNothing
    \/ on_data_put
    \/ on_data_check
    \/ GrabDataCall
    \/ SMRequest
    \/ SMSleep
    \/ GetDataErrorcheck
    \/ GetDataPop
    \/ GrabDataProcess
    \/ CommitAcqType
    \/ GrabCommitBinning

SpecGrab == Init /\ [][NextGrab]_vars

SpecHist == InitHist /\ [][NextHist]_vars

\* organise_0D_data called once on any of the arguments tried
InitOrg ==
    /\ InitCommon
    /\ IniNotCalled
    /\ HistNotCalled
    /\ dev_state = "idle"
    /\ dev_initialized = TRUE
    /\ c_pc = "idle"
    /\ sm_pc = "none"
    /\ sm_retries = 0
    /\ sm_r0 = 0
    /\ o_pc = "ready"
    /\ o_times \in UNION {[1..n -> OrgTimes] : n \in 0..MaxOrgTimes}
    /\ o_length \in OrgLengths
    /\ o_out = << >>
    /\ o_raised = FALSE

NextOrg == OrganiseData

SpecOrg == InitOrg /\ [][NextOrg]_vars

\* the plugin before ini_detector, the device not yet initialized
\* (device = scTDC.Device(autoinit=False)); the user may change the binning
\* before and after
InitIni ==
    /\ InitCommon
    /\ HistNotCalled
    /\ OrgNotCalled
    /\ dev_state = "idle"
    /\ dev_initialized = FALSE
    /\ c_pc = "idle"
    /\ sm_pc = "none"
    /\ sm_retries = 0
    /\ sm_r0 = 0
    /\ i_pc = "ready"
    /\ i_master = FALSE
    /\ i_open = "none"
    /\ i_initialized = FALSE
    /\ controller = "none"
    /\ x_axis = NoAxis

NextIni ==
    \/ IniDetector
    \/ CommitSetResolution
    \/ CommitSetNbins
    \/ CommitSetWindow

SpecIni == InitIni /\ [][NextIni]_vars

\* the plugin before and after ini_detector, the user changing any setting
NextSettings ==
    \/ IniDetector
    \/ CommitExposure
    \/ CommitAcqType
    \/ CommitDataLength
    \/ GrabCommitBinning

SpecSettings == InitIni /\ [][NextSettings]_vars

\* a program driving the Device object: module import leaves the device
\* uninitialized (autoinit=False), then any sequence of calls
NextDevice ==
    \/ DeviceInitialize
    \/ DeviceDeinitialize
    \/ DeviceAddPipe
    \/ DeviceRemovePipe
    \/ DeviceAddCallback
    \/ DeviceRemoveCallback

SpecDevice == InitIni /\ [][NextDevice]_vars

\* the wrapper in use, with stop() called between two get_data
NextStop ==
    \/ DevEvent
    \/ DevDeliver
    \/ DevEndOfMeas
    \/ DevEndClosed
    \/ DevFlushData
    \/ DevFlushEmptyChunk
    \/ DevFlushNothing
    \/ on_data_put
    \/ on_data_check
    \/ GetDataCall
    \/ SMRequest
    \/ SMSleep
    \/ GetDataErrorcheck
    \/ GetDataPop
    \/ Stop

SpecStop == Init /\ [][NextStop]_vars

----------------------------------------------------------------------------
(* Properties of the queue hand-off *)

IsData(item) == item.type = QUEUE_DATA
IsMarker(item) == item.type = QUEUE_ENDOFMEAS

\* C1: in enqueue order, the EndOfMeasurement marker of a measurement comes
\* after every Data item that holds events of that measurement.
C1_MarkerAfterData ==
    \A i, j \in 1..Len(pushed) :
        (IsMarker(pushed[i]) /\ IsData(pushed[j])
            /\ pushed[j].meas = pushed[i].meas) => j < i

\* C1 witness: a measurement delivered a chunk during the exposure and a
\* flush chunk after its end notification, and its marker is enqueued.
C1_Witness ==
    \E i, j, k \in 1..Len(pushed) :
        /\ j < k /\ k < i
        /\ IsMarker(pushed[i])
        /\ IsData(pushed[j]) /\ pushed[j].meas = pushed[i].meas
        /\ IsData(pushed[k]) /\ pushed[k].meas = pushed[i].meas

\* C2: in enqueue order, every Data item of measurement N+1 is preceded by
\* the EndOfMeasurement marker of measurement N.
C2_MarkerBeforeNextData ==
    \A j \in 1..Len(pushed) :
        (IsData(pushed[j]) /\ pushed[j].meas > 1) =>
            \E i \in 1..(j - 1) :
                IsMarker(pushed[i]) /\ pushed[i].meas = pushed[j].meas - 1

\* C3: the items popped so far followed by the items still queued are the
\* items pushed, in push order: nothing dropped, duplicated or reordered.
C3_Fifo == pushed = popped \o queue

\* C3 witness: two items were popped while a later one is still queued.
C3_Witness == Len(popped) >= 2 /\ Len(queue) >= 1

RECURSIVE SumDataLen(_)
\* sum of data_len over the Data items of a sequence of queue items
SumDataLen(items) ==
    IF items = << >> THEN 0
    ELSE (IF IsData(Head(items)) THEN Head(items).data.data_len ELSE 0)
         + SumDataLen(Tail(items))

\* index of the last marker popped before position j (0 when there is none)
PrevMarker(j) ==
    LET earlier == {i \in 1..(j - 1) : IsMarker(popped[i])}
    IN  IF earlier = {} THEN 0
        ELSE CHOOSE i \in earlier : \A k \in earlier : k <= i

\* C4: when the consumer reaches the marker of a measurement, the Data items
\* it took since the previous marker sum to the events delivered for that
\* measurement.
C4_DrainSum ==
    \A j \in 1..Len(popped) :
        IsMarker(popped[j]) =>
            SumDataLen(SubSeq(popped, PrevMarker(j) + 1, j - 1))
                = delivered[popped[j].meas]

\* C5: a returned get_data made one start_measurement call of at most
\* DefaultRetries requests and one queue.get(), and returns the payload of
\* the first item it dequeued, whether or not that is the marker.
C5_OnePop ==
    /\ pops_in_call <= 1
    /\ c_pc \in {"queue_get", "returned"} =>
          (sm_requests >= 1 /\ sm_requests <= DefaultRetries)
    /\ c_pc = "returned" =>
          (pops_in_call = 1 /\ ret = first_item.data)

\* C5 witness: get_data returned a Data chunk and the marker of the same
\* measurement is left at the head of the queue.
C5_Witness ==
    /\ c_pc = "returned"
    /\ IsData(first_item)
    /\ queue # << >>
    /\ IsMarker(Head(queue))
    /\ Head(queue).meas = first_item.meas

----------------------------------------------------------------------------
(* Properties of get_data's waiting and error paths *)

\* C6: a get_data that waits on the queue eventually stops waiting (an item
\* arrives or the wait times out), so it returns to its caller.
C6_WaitBounded == (c_pc = "queue_get") ~> (c_pc # "queue_get")

\* C7: get_data never waits on the queue after a start request that
\* returned a negative code.
C7_NoWaitAfterFailedStart == ~(c_pc = "queue_get" /\ retcode < 0)

----------------------------------------------------------------------------
(* Properties of start_measurement *)

MaxOf(a, b) == IF a >= b THEN a ELSE b

\* C8: start_measurement makes at least one and at most max(r, 1) start
\* requests, sleeps once between two consecutive requests, can always take
\* its next step until it has returned, and returns -11 when every answer
\* was -11.
C8_StartTerminates ==
    /\ sm_requests <= MaxOf(sm_r0, 1)
    /\ sm_pc = "request" => sm_sleeps = sm_requests
    /\ sm_pc \in {"sleep", "returned"} => sm_sleeps = sm_requests - 1
    /\ sm_pc = "returned" \/ ENABLED NextStart
    /\ (sm_pc = "returned" /\ sm_all_notrdy) =>
          (sm_ret = NOT_READY /\ sm_requests >= 1)

\* C8 witness: with retries = 3 the device answered -11 three times, with
\* two sleeps, and start_measurement gave up.
C8_Witness ==
    /\ sm_pc = "returned"
    /\ sm_all_notrdy
    /\ sm_r0 = DefaultRetries
    /\ sm_requests = DefaultRetries
    /\ sm_sleeps = DefaultRetries - 1
    /\ sm_ret = NOT_READY

\* C9: with retries = r >= 1 and -11 answered to every request,
\* start_measurement gives up after r + 1 start requests.
C9_RetriesPlusOne ==
    (sm_pc = "returned" /\ sm_all_notrdy /\ sm_r0 >= 1) =>
        (sm_ret = NOT_READY /\ sm_requests = sm_r0 + 1)

----------------------------------------------------------------------------
(* Single-flight measurements *)

\* an exposure was started and its EndOfMeasurement marker is not consumed
InFlight ==
    \E m \in 1..dev_meas :
        ~ \E i \in 1..Len(popped) : IsMarker(popped[i]) /\ popped[i].meas = m

\* C10: while a measurement is in flight no start-exposure request is sent
\* to the device.
C10_SingleFlight == [][InFlight => sm_requests' # sm_requests + 1]_vars

----------------------------------------------------------------------------
(* Faulted controller *)

\* C11: while the controller is faulted (a start request was answered with
\* a fatal error and no open_communication has succeeded since) no
\* start-exposure request is sent to the device.
C11_NoStartWhileFaulted ==
    [][faulted => sm_requests' # sm_requests + 1]_vars

----------------------------------------------------------------------------
(* Properties of the binning parameters (SpecBin) *)

\* window_ns == nbins * resolution_ps / 1000, exactly
BinningExact ==
    1000 * ns_time_window * ps_resolution[2] = nbins * ps_resolution[1]

C13_ResolutionUpdate ==
    b_op = "resolution" =>
        /\ ns_time_window = b_prev.window
        /\ b_arg > 0 =>
              /\ nbins = (1000 * b_prev.window) \div b_arg
              /\ QuotEq(ps_resolution, Quot(b_arg, 1))
              /\ ~b_raised

\* C13 witness: from resolution 1000 ps, window 1 ns, nbins 1, setting
\* the resolution to 500 gave nbins 2 with the window still 1 ns.
C13_Witness ==
    /\ b_op = "resolution" /\ b_arg = 500
    /\ b_prev.window = 1 /\ b_prev.nbins = 1
    /\ QuotEq(b_prev.resolution, Quot(1000, 1))
    /\ nbins = 2 /\ ns_time_window = 1

\* C14: an nbins update to n sets resolution_ps to 1000 * window_ns / n and
\* leaves window_ns unchanged.
C14_NbinsUpdate ==
    b_op = "nbins" =>
        /\ nbins = b_arg
        /\ QuotEq(ps_resolution, Quot(1000 * b_prev.window, b_arg))
        /\ ns_time_window = b_prev.window
        /\ ~b_raised

\* C14 witness: 2048 bins chosen on a 1000 ns window at another resolution.
C14_Witness ==
    /\ b_op = "nbins" /\ b_arg = 2048
    /\ b_prev.window = 1000
    /\ ~QuotEq(b_prev.resolution, ps_resolution)

\* C15: a window update to w leaves nbins unchanged and, nbins being
\* positive, sets resolution_ps to 1000 * w / nbins.
C15_WindowUpdate ==
    b_op = "window" =>
        /\ nbins = b_prev.nbins
        /\ ns_time_window = b_arg
        /\ b_prev.nbins > 0 =>
              (~b_raised /\ QuotEq(ps_resolution, Quot(1000 * b_arg, nbins)))

\* C15 witness: the window changed from 1000 ns to 1 ns with 1024 bins.
C15_Witness ==
    /\ b_op = "window" /\ b_arg = 1
    /\ b_prev.window = 1000 /\ b_prev.nbins = 1024
    /\ nbins = 1024

\* C16: an update whose result would have resolution_ps <= 0, nbins <= 0
\* or window_ns <= 0 is rejected and changes nothing, so the stored values,
\* positive initially, stay positive.
C16_InvalidRejected ==
    /\ QuotPositive(ps_resolution)
    /\ nbins > 0
    /\ ns_time_window > 0

----------------------------------------------------------------------------
(* Properties of extract_histogram (SpecHist) *)

\* sum of the counts of a histogram with bins 0..(n - 1)
RECURSIVE SumCounts(_, _)
SumCounts(hist, n) ==
    IF n = 0 THEN 0 ELSE hist[n - 1] + SumCounts(hist, n - 1)

HistReturned == h_pc = "done" /\ ~h_raised

\* C18: the sum of the counts extract_histogram returns equals the number
\* of input times t with 0 <= t < window_ps.
C18_CountsWholeWindow ==
    HistReturned =>
        SumCounts(h_hist, h_Nbins) =
            Cardinality({i \in DOMAIN h_times :
                            0 <= h_times[i] /\ h_times[i] < h_window})

\* C19: every bin b of the returned histogram holds exactly the input
\* times t with 0 <= t < window_ps and floor(t / (window_ps / Nbins)) = b.
C19_BinOfTime ==
    HistReturned =>
        \A b \in 0..(h_Nbins - 1) :
            h_hist[b] =
                Cardinality({i \in DOMAIN h_times :
                                /\ 0 <= h_times[i]
                                /\ h_times[i] < h_window
                                /\ (h_times[i] * h_Nbins) \div h_window = b})

----------------------------------------------------------------------------
(* Properties of grab_data (SpecGrab) *)

\* C17: while an acquisition is in flight (the device exposing or flushing
\* its events, or the EndOfMeasurement marker of an exposure not yet
\* consumed) no commit_settings changes the window, the resolution or the
\* bin count.
C17_BinningLockedInFlight ==
    [][(dev_state \in {"exposing", "flushing"} \/ InFlight)
          => UNCHANGED << ns_time_window, ps_resolution, nbins >>]_vars

\* C20: the last grab_data processed, if it ran in Histo mode and obtained
\* a chunk, emitted one Data1D histogram whose length is nbins.
C20_HistoEmitsHistogram ==
    (g_done > 0 /\ g_last.mode = "Histo" /\ g_last.chunk) =>
        /\ g_last.out.dim = "Data1D"
        /\ g_last.out.len = nbins

\* C23: every grab_data processed emitted exactly one result, a Data1D
\* histogram if the mode was Histo and a Data0D array if it was Counting.
C23_OneResultPerMode ==
    g_done > 0 =>
        g_last.out.dim = IF g_last.mode = "Histo" THEN "Data1D" ELSE "Data0D"

----------------------------------------------------------------------------
(* Properties of organise_0D_data (SpecOrg) *)

\* C21: called with n <= data_length times, organise_0D_data returns an
\* array of exactly data_length elements whose first n slots are the input
\* times in order and whose other slots are zero.
C21_PadsWithZeros ==
    (o_pc = "done" /\ Len(o_times) <= o_length) =>
        /\ ~o_raised
        /\ DOMAIN o_out = 1..o_length
        /\ \A i \in 1..Len(o_times) : o_out[i] = o_times[i]
        /\ \A i \in (Len(o_times) + 1)..o_length : o_out[i] = 0

\* C21 witness: 3 times in an array of 5, as in the specification's example.
C21_Witness ==
    /\ o_pc = "done"
    /\ o_length = 5
    /\ o_times = << 1, 2, 1 >>
    /\ o_out = << 1, 2, 1, 0, 0 >>

\* C22: called with more than data_length times, organise_0D_data raises
\* nothing and returns the first data_length times in order.
C22_TruncatesSilently ==
    (o_pc = "done" /\ Len(o_times) > o_length) =>
        /\ ~o_raised
        /\ DOMAIN o_out = 1..o_length
        /\ \A i \in 1..o_length : o_out[i] = o_times[i]

----------------------------------------------------------------------------
(* Ownership of the enqueued chunks (Spec) *)

\* C24: no step, and in particular no later delivery overwriting the
\* library's buffer, changes the contents of an item that was enqueued,
\* whether it is still queued or was handed to the consumer.
C24_EnqueuedChunkImmutable ==
    [][/\ \A i \in 1..Len(pushed) : Contents(pushed[i])' = Contents(pushed[i])
       /\ \A i \in 1..Len(popped) : Contents(popped[i])' = Contents(popped[i])
      ]_vars

\* C24 witness: the library's buffer was overwritten by a later delivery
\* while an earlier Data item is queued and another was handed out.
C24_Witness ==
    /\ \E i \in 1..Len(queue) :
          IsData(queue[i]) /\ queue[i].data.seq # lib_buf.seq
    /\ \E i \in 1..Len(popped) :
          IsData(popped[i]) /\ popped[i].data.seq # lib_buf.seq

----------------------------------------------------------------------------
(* The producer never waits (Spec) *)

\* C25: whatever the queue holds and wherever the consumer is, a producer
\* callback that has reached a put can complete it, and on_end_of_meas,
\* once called, takes no step that could wait.
C25_ProducerNeverBlocks ==
    /\ prod_pc = "put_data" => ENABLED on_data_put
    /\ prod_pc = "check_flag" => ENABLED on_data_check

\* C25 witness: on_data is about to put while two items are queued and the
\* consumer is not popping.
C25_Witness ==
    /\ prod_pc = "put_data"
    /\ Len(queue) >= 2
    /\ c_pc \in {"idle", "returned"}

----------------------------------------------------------------------------
(* End-of-measurement notifications (FairSpec) *)

\* C26: every end-of-measurement notification (on_end_of_meas called for
\* exposure m) is eventually followed by an EndOfMeasurement marker of m in
\* the queue.
C26_NotificationLeadsToMarker ==
    \A m \in Measurements :
        (end_of_meas /\ eom_meas = m)
            ~> (\E i \in 1..Len(pushed) :
                    IsMarker(pushed[i]) /\ pushed[i].meas = m)

----------------------------------------------------------------------------
(* Properties of ini_detector (SpecIni) *)

\* C27: ini_detector returns initialized = False when open_communication
\* failed, and initialized = True only when it did not fail.
C27_InitializedReflectsOpen ==
    i_pc = "done" =>
        /\ i_open = "failed" => ~i_initialized
        /\ i_open = "ok" => i_initialized

----------------------------------------------------------------------------
(* The deferred marker (Spec) *)

\* C28: the step that sets end_of_meas (on_end_of_meas) enqueues nothing;
\* a marker is enqueued only while the flag is set, directly after the Data
\* item of the on_data call in progress, and that step clears the flag; the
\* first on_data to finish after the notification is the one that does so.
C28_MarkerDeferredToNextOnData ==
    [][/\ (~end_of_meas /\ end_of_meas') =>
             (pushed' = pushed /\ queue' = queue)
       /\ (pushed' # pushed /\ IsMarker(pushed'[Len(pushed')])) =>
             /\ end_of_meas /\ ~end_of_meas'
             /\ pushed' = Append(pushed, pushed'[Len(pushed')])
             /\ Len(pushed) > 0
             /\ IsData(pushed[Len(pushed)])
             /\ pushed[Len(pushed)].data.seq = prod_d.seq
       /\ (end_of_meas /\ prod_pc = "check_flag" /\ prod_pc' = "idle") =>
             (~end_of_meas' /\ IsMarker(pushed'[Len(pushed')]))
      ]_vars

\* C28 witness: a marker sits directly behind the Data item of the on_data
\* call that enqueued it, the flag is cleared again and the callback is over.
C28_Witness ==
    /\ ~end_of_meas
    /\ prod_pc = "idle"
    /\ Len(pushed) >= 2
    /\ IsMarker(pushed[Len(pushed)])
    /\ IsData(pushed[Len(pushed) - 1])
    /\ pushed[Len(pushed) - 1].data.seq = prod_d.seq

----------------------------------------------------------------------------
(* No device call from the callbacks (Spec) *)

\* C29: a step of on_data (its put or its flag check) changes nothing of the
\* device and sends no start request; the step in which on_end_of_meas sets
\* the flag sends no start request, closes no pipe and neither initializes
\* nor deinitializes the device.
C29_NoDeviceCallInCallbacks ==
    [][/\ (prod_pc \in {"put_data", "check_flag"} /\ prod_pc' # prod_pc) =>
             UNCHANGED << deviceVars, sm_requests, sm_pc >>
       /\ (~end_of_meas /\ end_of_meas') =>
             UNCHANGED << sm_requests, sm_pc, pipe_open, dev_initialized,
                          dev_meas >>
      ]_vars

\* C29 witness: on_end_of_meas and on_data have run to the end of an
\* exposure (its marker is enqueued) and the device has seen the single
\* start request of get_data, its pipe still open.
C29_Witness ==
    /\ \E i \in 1..Len(pushed) : IsMarker(pushed[i])
    /\ prod_pc = "idle"
    /\ sm_requests = 1
    /\ pipe_open
    /\ dev_initialized

----------------------------------------------------------------------------
(* start_measurement: answers other than -11 (SpecStart) *)

\* C30: the step in which a start request is first answered with a code
\* other than -11 returns that code at once (0 exactly when the device
\* accepted the exposure, the error code otherwise), and no start request
\* and no sleep follow it.
C30_FirstOtherCodeReturned ==
    [][/\ (sm_all_notrdy /\ ~sm_all_notrdy') =>
             /\ sm_pc' = "returned"
             /\ sm_requests' = sm_requests + 1
             /\ sm_sleeps' = sm_sleeps
             /\ sm_ret' \in {0, OTHER_ERROR}
             /\ sm_ret' = 0 <=> dev_meas' = dev_meas + 1
       /\ ~sm_all_notrdy =>
             UNCHANGED << sm_requests, sm_sleeps, sm_ret, sm_pc >>
      ]_vars

\* C30 witness: -11 was answered once, then an error other than -11, and
\* start_measurement returned it after two requests and one sleep although
\* retries were left.
C30_Witness ==
    /\ sm_pc = "returned"
    /\ sm_ret = OTHER_ERROR
    /\ sm_requests = 2
    /\ sm_sleeps = 1
    /\ sm_retries >= 2

----------------------------------------------------------------------------
(* What get_data hands out (Spec) *)

\* C31: a get_data call that started an exposure returns a Data chunk
\* delivered during that exposure: not an item of an earlier exposure and
\* not the None payload of a marker.
C31_ReturnsChunkOfOwnExposure ==
    (c_pc = "returned" /\ retcode = 0) =>
        /\ IsData(popped[Len(popped)])
        /\ ret # None
        /\ ret.meas = dev_meas

----------------------------------------------------------------------------
(* Markers and notifications (Spec) *)

\* number of EndOfMeasurement markers among a sequence of queue items
RECURSIVE CountMarkers(_)
CountMarkers(items) ==
    IF items = << >> THEN 0
    ELSE (IF IsMarker(Head(items)) THEN 1 ELSE 0) + CountMarkers(Tail(items))

\* C32: the markers ever enqueued are at most as many as the end
\* notifications received, and fewer by at most one.
C32_MarkersMatchNotifications ==
    /\ CountMarkers(pushed) <= notified
    /\ notified <= CountMarkers(pushed) + 1

----------------------------------------------------------------------------
(* The x axis of the histograms (SpecIni) *)

\* C33: once ini_detector has run, and after any commit_settings, the x
\* axis that grab_data attaches to a histogram has nbins points spaced by
\* resolution_ps.
C33_AxisFollowsBinning ==
    i_pc = "done" =>
        /\ x_axis.points = nbins
        /\ QuotEq(x_axis.spacing, ps_resolution)

----------------------------------------------------------------------------
(* Settings other than the binning (SpecSettings) *)

\* C34: a step that changes the exposure, the acquisition type or the data
\* length changes only that one setting: the window, the resolution, the
\* bin count, the x axis and the other two settings stay as they were.
C34_OtherSettingsFrame ==
    [][(exposure_ms' # exposure_ms \/ mode' # mode
            \/ self_data_length' # self_data_length) =>
          /\ UNCHANGED << ns_time_window, ps_resolution, nbins, x_axis >>
          /\ exposure_ms' # exposure_ms =>
                UNCHANGED << mode, self_data_length >>
          /\ mode' # mode =>
                UNCHANGED << exposure_ms, self_data_length >>
          /\ self_data_length' # self_data_length =>
                UNCHANGED << exposure_ms, mode >>
      ]_vars

\* C34 witness: the exposure, the acquisition type and the data length were
\* all changed on a binning that had been changed before, and the binning
\* is still the changed one.
C34_Witness ==
    /\ exposure_ms = 50
    /\ mode = "Counting"
    /\ self_data_length = 200
    /\ nbins = 1024
    /\ b_op = "nbins"

----------------------------------------------------------------------------
(* stop() and the Device object (SpecStop, SpecDevice) *)

\* C35: stop() ends only the current grab: after stop() the device is
\* still initialized and the callback pipe still open if they were before,
\* so that a following grab_data can start a new exposure.
C35_StopKeepsDeviceReady ==
    (d_op = "stop" /\ ~d_raised)
        => /\ d_prev.initialized => dev_initialized
           /\ d_prev.pipe_open => pipe_open

\* C36: after a successful Device.deinitialize, Device.pipes is empty and
\* no pipe that was registered is still open (handle not None).
C36_DeinitializeClosesPipes ==
    (d_op = "deinitialize" /\ d_prev.initialized /\ d_ret = 0)
        => /\ pipes = EmptyDict
           /\ \A id \in DOMAIN d_prev.pipes :
                 handle[d_prev.pipes[id]] = NoHandle

\* C37: Device.deinitialize on a device that is not initialized makes no
\* library call, changes nothing and returns 0; a deinitialize that
\* returns an error leaves dev_desc and pipes as they were.
C37_DeinitializeIdempotent ==
    d_op = "deinitialize"
        => /\ ~d_prev.initialized
                 => (~d_libcall /\ d_ret = 0 /\ DeviceNow = d_prev)
           /\ d_ret < 0
                 => /\ dev_initialized = d_prev.initialized
                    /\ pipes = d_prev.pipes

\* a deinitialize repeated after a successful one that dropped pipes, with
\* callbacks registered
C37_Witness ==
    /\ d_op = "deinitialize"
    /\ ~d_prev.initialized
    /\ Len(handle) > 0
    /\ eomcb # EmptyDict

\* C38: add_end_of_measurement_callback returns a non-negative id that was
\* not registered and changes no other entry; remove of a registered id
\* deletes exactly that entry and returns 0; remove of an unknown id
\* returns -1 and changes nothing.
C38_CallbackIds ==
    /\ d_op = "add_callback"
          => /\ d_ret >= 0
             /\ d_ret \notin DOMAIN d_prev.eomcb
             /\ DOMAIN eomcb = DOMAIN d_prev.eomcb \cup {d_ret}
             /\ \A i \in DOMAIN d_prev.eomcb : eomcb[i] = d_prev.eomcb[i]
    /\ (d_op = "remove_callback" /\ d_arg \in DOMAIN d_prev.eomcb)
          => (d_ret = 0 /\ eomcb = DictDel(d_prev.eomcb, d_arg))
    /\ (d_op = "remove_callback" /\ d_arg \notin DOMAIN d_prev.eomcb)
          => (d_ret = 0 - 1 /\ eomcb = d_prev.eomcb)

\* an add that fills the hole a removal left below a registered id
C38_Witness ==
    /\ d_op = "add_callback"
    /\ DOMAIN d_prev.eomcb = {1}
    /\ d_ret = 0
    /\ DOMAIN eomcb = {0, 1}

\* C39: remove_pipe returns 0 only when the pipe was closed successfully
\* and removed from Device.pipes; it returns -1 when the id is unknown or
\* when closing the pipe reported an error.
C39_RemovePipeResult ==
    (d_op = "remove_pipe" /\ ~d_raised)
        => /\ d_ret = 0
                 => /\ d_arg \in DOMAIN d_prev.pipes
                    /\ d_arg \notin DOMAIN pipes
                    /\ handle[d_prev.pipes[d_arg]] = NoHandle
           /\ d_arg \notin DOMAIN d_prev.pipes => d_ret = 0 - 1
           /\ (d_libcall /\ handle[d_prev.pipes[d_arg]] # NoHandle)
                 => d_ret = 0 - 1

====
